---------------------------- MODULE Spec2Model ----------------------------
(***************************************************************************)
(* Model of wiki_dump_reader.py: the rejection filter bad_page, the        *)
(* streaming page extractor page_generator and the tab-delimited           *)
(* plain_page_generator.                                                   *)
(*                                                                         *)
(* A byte string is a sequence of units.  A unit is a one-character string *)
(* (an ASCII byte), the unit "U+00E9" (one character encoded in two bytes) *)
(* or the unit "0xFF" (one byte that is not valid UTF-8).  A line of the   *)
(* input is a byte string as the file iterator delivers it: it ends with   *)
(* "\n", except possibly the last line of the stream.                      *)
(***************************************************************************)
EXTENDS Integers, Sequences, FiniteSets, TLC

---------------------------------------------------------------------------
(* Bounds of the model.                                                    *)

\* Most lines the model reads from one stream.
MaxLines == 5

\* Largest configured page_length_limit the model draws.
MaxLimit == 2

\* Most padding characters put in front of a filter text (beyond the window).
MaxPad == 2

---------------------------------------------------------------------------
(* Python values.                                                          *)

\* Python's None, for the string-valued locals.
None == <<"None">>

\* Python's None, for the integer-valued local `start`.
NoneInt == -1

Min(a, b) == IF a <= b THEN a ELSE b

Max(a, b) == IF a >= b THEN a ELSE b

\* len(line) of a byte string: "U+00E9" is two bytes, every other unit one.
ByteLen(c) == IF c = "U+00E9" THEN 2 ELSE 1

RECURSIVE len_bytes(_)
len_bytes(s) == IF s = <<>> THEN 0 ELSE ByteLen(Head(s)) + len_bytes(Tail(s))

\* The decoding that skips the bytes it cannot decode and never fails.
Decodable_ignoring_errors(s) == TRUE

\* line.decode('utf-8') succeeds iff the line holds no invalid byte;
\* the decoded string has one character per unit.
Decodable(s) == \A i \in 1..Len(s) : s[i] # "0xFF"

LowerLetters == <<"a","b","c","d","e","f","g","h","i","j","k","l","m",
                  "n","o","p","q","r","s","t","u","v","w","x","y","z">>

UpperLetters == <<"A","B","C","D","E","F","G","H","I","J","K","L","M",
                  "N","O","P","Q","R","S","T","U","V","W","X","Y","Z">>

\* c.upper() of one character.
UpperChar(c) ==
    IF \E i \in 1..26 : LowerLetters[i] = c
    THEN UpperLetters[CHOOSE i \in 1..26 : LowerLetters[i] = c]
    ELSE IF c = "U+00E9" THEN "U+00C9" ELSE c

\* s.upper()
upper(s) == [i \in 1..Len(s) |-> UpperChar(s[i])]

\* s[:n] for n >= 0
SliceTo(s, n) == SubSeq(s, 1, Min(n, Len(s)))

\* s[-n:] for n > 0
SliceLast(s, n) == SubSeq(s, Max(1, Len(s) - n + 1), Len(s))

\* s[n:] for n >= 0 (n counts the characters dropped)
SliceFrom(s, n) == SubSeq(s, n + 1, Len(s))

\* s[:-n] for n > 0
SliceDropLast(s, n) == SubSeq(s, 1, Len(s) - n)

\* t occurs in s at (1-based) position i
OccursAt(s, t, i) ==
    /\ i >= 1
    /\ i + Len(t) - 1 <= Len(s)
    /\ \A k \in 1..Len(t) : s[i + k - 1] = t[k]

\* t in s
Contains(s, t) == \E i \in 1..(Len(s) - Len(t) + 1) : OccursAt(s, t, i)

\* s.endswith(t)
endswith(s, t) == Len(s) >= Len(t) /\ OccursAt(s, t, Len(s) - Len(t) + 1)

\* ''.join(parts)
RECURSIVE join(_)
join(parts) == IF parts = <<>> THEN <<>> ELSE Head(parts) \o join(Tail(parts))

Digits == <<"0","1","2","3","4","5","6","7","8","9">>

IsDigit(c) == \E i \in 1..10 : Digits[i] = c

DigitValue(c) == (CHOOSE i \in 1..10 : Digits[i] = c) - 1

\* int(s) for a string of ASCII digits
RECURSIVE int(_)
int(s) ==
    IF s = <<>> THEN 0
    ELSE 10 * int(SubSeq(s, 1, Len(s) - 1)) + DigitValue(s[Len(s)])

\* int(s) raises ValueError unless s is an optionally signed, optionally
\* blank-padded run of digits; the model's fields carry no sign or padding.
IntParses(s) == s # <<>> /\ \A i \in 1..Len(s) : IsDigit(s[i])

NL == "\n"

TAB == "\t"

\* s.split(sep) for a one-character separator: every separator cuts, so
\* n separators give n + 1 fields (empty fields included).
RECURSIVE split(_, _)
split(s, sep) ==
    IF \A i \in 1..Len(s) : s[i] # sep
    THEN <<s>>
    ELSE LET i == CHOOSE j \in 1..Len(s) :
                      s[j] = sep /\ \A k \in 1..(j - 1) : s[k] # sep
         IN  <<SubSeq(s, 1, i - 1)>> \o split(SubSeq(s, i + 1, Len(s)), sep)

---------------------------------------------------------------------------
(* MODULE CONFIGURATION: the bad page checks.                              *)

\* 'User: Wikipedia: File: MediaWiki: Template: Help: Category: Portal:
\*  Book: 28644448 Help:'
TitleStartSource ==
    <<"U","s","e","r",":"," ","W","i","k","i","p","e","d","i","a",
      ":"," ","F","i","l","e",":"," ","M","e","d","i","a","W","i",
      "k","i",":"," ","T","e","m","p","l","a","t","e",":"," ","H",
      "e","l","p",":"," ","C","a","t","e","g","o","r","y",":"," ",
      "P","o","r","t","a","l",":"," ","B","o","o","k",":"," ","2",
      "8","6","4","4","4","4","8"," ","H","e","l","p",":">>

title_start_with_terms == split(upper(TitleStartSource), " ")

title_end_with_terms ==
    split(upper(<<"(","d","i","s","a","m","b","i","g","u","a","t","i","o","n",")">>), " ")

text_start_with_terms ==
    split(upper(<<"#","R","E","D","I","R","E","C","T"," ","{","{","s","o","f",
                "t","r","e","d","i","r","e","c","t">>), " ")

text_last_terms ==
    split(upper(<<"{","{","D","i","s","a","m","b"," ","{","{","D","a","b"," ",
                "s","t","u","b","}","}">>), " ")

\* The window of text[-8000:].
TailWindow == 8000

---------------------------------------------------------------------------
(* State.                                                                  *)

VARIABLES
    state, title, ID, text, start,  \* locals of page_generator (title, ID,
                                    \* text also: plain_page_generator's, and
                                    \* title, text: the arguments of bad_page)
    pos, next_pos,                  \* the byte-offset cursors
    stream,                         \* file_obj: the lines read so far
    rest,                           \* file_obj: the lines of a given stream
                                    \* not read yet
    out,                            \* the Page records yielded so far
    yield_at,                       \* for each of them, the number of lines
                                    \* read when it was yielded
    pc,                             \* where the generator (or the call) is
    exc,                            \* the exception that ended it
    page_length_limit,              \* indexer.page_length_limit
    result,                         \* the value bad_page returned
    generator                       \* the function that was called

vars == <<state, title, ID, text, start, pos, next_pos, stream, rest, out,
          yield_at, pc, exc, page_length_limit, result, generator>>

\* Page(ID, title, text, start)
Page(id, ti, tx, st) == [ID |-> id, title |-> ti, text |-> tx, start |-> st]

---------------------------------------------------------------------------
(* bad_page                                                                *)

\* The loop over the prefix terms given up at the first term that is
\* longer than the title.
title_starts_until_longer(ti) ==
    \E i \in DOMAIN title_start_with_terms :
        /\ upper(SliceTo(ti, Len(title_start_with_terms[i])))
               = title_start_with_terms[i]
        /\ \A j \in 1..(i - 1) : Len(title_start_with_terms[j]) <= Len(ti)

\* for term in title_start_with_terms:
\*     if title[:len(term)].upper() == term: return True
\* Each such loop returns True iff some term of its list passes the test;
\* the tests have no effect, so the loop is \E.
title_starts(ti) ==
    \E i \in DOMAIN title_start_with_terms :
        upper(SliceTo(ti, Len(title_start_with_terms[i])))
            = title_start_with_terms[i]

\* for term in title_end_with_terms:
\*     if title[-len(term):].upper() == term: return True
title_ends(ti) ==
    \E i \in DOMAIN title_end_with_terms :
        upper(SliceLast(ti, Len(title_end_with_terms[i])))
            = title_end_with_terms[i]

\* The length rule with the limit itself let through.
too_short_excl(tx) == Len(tx) < page_length_limit

\* if len(text) <= page_length_limit: return True
too_short(tx) == Len(tx) <= page_length_limit

\* for term in text_start_with_terms:
\*     if term == text[:len(term)].upper(): return True
text_starts(tx) ==
    \E i \in DOMAIN text_start_with_terms :
        text_start_with_terms[i]
            = upper(SliceTo(tx, Len(text_start_with_terms[i])))

\* The tail rule scanning the whole text instead of its last characters.
text_tail_unbounded(tx) ==
    \E i \in DOMAIN text_last_terms : Contains(upper(tx), text_last_terms[i])

\* for term in text_last_terms:
\*     if term in text[-8000:].upper(): return True
text_tail(tx) ==
    \E i \in DOMAIN text_last_terms :
        Contains(upper(SliceLast(tx, TailWindow)), text_last_terms[i])

\* The checks in the order of the code, each returning at its first hit.
bad_page(ti, tx) ==
    IF title_starts(ti) THEN TRUE
    ELSE IF title_ends(ti) THEN TRUE
    ELSE IF too_short(tx) THEN TRUE
    ELSE IF text_starts(tx) THEN TRUE
    ELSE IF text_tail(tx) THEN TRUE
    ELSE FALSE

---------------------------------------------------------------------------
(* The markers and the regular expressions of page_generator.              *)

PAGE_OPEN == <<"<","p","a","g","e",">">>

TITLE_OPEN == <<"<","t","i","t","l","e",">">>

TITLE_CLOSE == <<"<","/","t","i","t","l","e",">">>

ID_OPEN == <<"<","i","d",">">>

ID_CLOSE == <<"<","/","i","d",">">>

TEXT_OPEN == <<"<","t","e","x","t">>

TEXT_CLOSE == <<"<","/","t","e","x","t",">">>

\* '</text>\n'
TEXT_CLOSE_NL == TEXT_CLOSE \o <<NL>>

\* `.` matches every character but the newline.
NoNewline(s, a, b) == \A k \in a..b : s[k] # NL

SetMin(S) == CHOOSE x \in S : \A y \in S : x <= y

\* A match object (group(1), end()), or no match.
NoMatch == [matched |-> FALSE]

Match(g, e) == [matched |-> TRUE, group1 |-> g, end |-> e]

\* re.search(r'<title>(.*?)</title>', line): the leftmost <title> that a
\* </title> follows on the line, and the nearest such </title>.
search_title(line) ==
    LET closes(i) == { j \in (i + Len(TITLE_OPEN))..Len(line) :
                          /\ OccursAt(line, TITLE_CLOSE, j)
                          /\ NoNewline(line, i + Len(TITLE_OPEN), j - 1) }
        starts == { i \in 1..Len(line) :
                          OccursAt(line, TITLE_OPEN, i) /\ closes(i) # {} }
    IN  IF starts = {} THEN NoMatch
        ELSE LET i == SetMin(starts)
                 j == SetMin(closes(i))
             IN  Match(SubSeq(line, i + Len(TITLE_OPEN), j - 1),
                       j + Len(TITLE_CLOSE) - 1)

\* re.search(r'<id>(\d+)</id>', line): <id>, one or more digits, </id>.
search_id(line) ==
    LET closes(i) == { j \in (i + Len(ID_OPEN) + 1)..Len(line) :
                          /\ OccursAt(line, ID_CLOSE, j)
                          /\ \A k \in (i + Len(ID_OPEN))..(j - 1) :
                                 IsDigit(line[k]) }
        starts == { i \in 1..Len(line) :
                          OccursAt(line, ID_OPEN, i) /\ closes(i) # {} }
    IN  IF starts = {} THEN NoMatch
        ELSE LET i == SetMin(starts)
                 j == SetMin(closes(i))
             IN  Match(SubSeq(line, i + Len(ID_OPEN), j - 1),
                       j + Len(ID_CLOSE) - 1)

\* The '>' that ends the tag opened by the <text at i, for [^>]*: the first
\* '>' after it (0 when there is none).  [^>] matches the newline too.
TagEnd(line, i) ==
    LET gts == { k \in (i + Len(TEXT_OPEN))..Len(line) : line[k] = ">" }
    IN  IF gts = {} THEN 0 ELSE SetMin(gts)

\* re.search(r'<text[^>]*>(.*?)</text>', line)
search_text_inline(line) ==
    LET closes(i) == { j \in (TagEnd(line, i) + 1)..Len(line) :
                          /\ OccursAt(line, TEXT_CLOSE, j)
                          /\ NoNewline(line, TagEnd(line, i) + 1, j - 1) }
        starts == { i \in 1..Len(line) :
                          /\ OccursAt(line, TEXT_OPEN, i)
                          /\ TagEnd(line, i) # 0
                          /\ closes(i) # {} }
    IN  IF starts = {} THEN NoMatch
        ELSE LET i == SetMin(starts)
                 j == SetMin(closes(i))
             IN  Match(SubSeq(line, TagEnd(line, i) + 1, j - 1),
                       j + Len(TEXT_CLOSE) - 1)

\* re.search(r'<text.*?>', line): the leftmost <text that a '>' follows
\* before the end of the line, and the nearest such '>'.
search_text_open(line) ==
    LET ends(i) == { k \in (i + Len(TEXT_OPEN))..Len(line) :
                          /\ line[k] = ">"
                          /\ NoNewline(line, i + Len(TEXT_OPEN), k - 1) }
        starts == { i \in 1..Len(line) :
                          OccursAt(line, TEXT_OPEN, i) /\ ends(i) # {} }
    IN  IF starts = {} THEN NoMatch
        ELSE LET i == SetMin(starts)
                 k == SetMin(ends(i))
             IN  Match(<<>>, k)

---------------------------------------------------------------------------
(* page_generator: one iteration of `for line in file_obj`.                *)

\* The cursor advanced by the number of characters of the decoded line.
line_len_decoded(line) == Len(line)

\* `next_pos += len(line)`, line being the undecoded line: its bytes.
line_len(line) == len_bytes(line)

\* The locals the if/elif chain reads and writes.
Locals == [state |-> state, title |-> title, ID |-> ID, text |-> text,
           start |-> start, raised |-> "None"]

\* The start of the page taken from the cursor after the line.
page_start_after_line(p, np) == np

\* `start = pos`: p is pos, np is next_pos, both already advanced over line.
page_start(p, np) == p

\* start assigned for the first page only.
in_None_start_once(g, line, p, np) ==
    IF Contains(line, PAGE_OPEN)
    THEN [g EXCEPT !.state = "page",
                   !.start = IF g.start = NoneInt THEN page_start(p, np)
                             ELSE g.start]
    ELSE g

\* state is None
in_None(g, line, p, np) ==
    IF Contains(line, PAGE_OPEN)
    THEN [g EXCEPT !.state = "page", !.start = page_start(p, np)]
    ELSE g

\* state == 'page'; title is assigned the match object, None included.
in_page(g, line) ==
    LET m == search_title(line)
    IN  IF m.matched
        THEN [g EXCEPT !.state = "title", !.title = m.group1]
        ELSE [g EXCEPT !.title = None]

\* state == 'title'; ID is assigned the match object, None included.
in_title(g, line) ==
    LET m == search_id(line)
    IN  IF m.matched
        THEN [g EXCEPT !.state = "id", !.ID = m.group1]
        ELSE [g EXCEPT !.ID = None]

\* state == 'id'.  When the line ends with '</text>\n' and the inline
\* pattern finds nothing, re.search(...) is None and .group(1) raises.
in_id(g, line) ==
    IF endswith(line, TEXT_CLOSE_NL)
    THEN LET m == search_text_inline(line)
         IN  IF m.matched
             THEN [g EXCEPT !.text = m.group1, !.state = "done"]
             ELSE [g EXCEPT !.raised = "AttributeError"]
    ELSE LET m == search_text_open(line)
         IN  IF m.matched
             THEN [g EXCEPT !.text = <<SliceFrom(line, m.end)>>,
                            !.state = "text"]
             ELSE [g EXCEPT !.text = None]

\* The accumulation with the line terminator of each middle line dropped.
in_text_stripped(g, line) ==
    IF endswith(line, TEXT_CLOSE_NL)
    THEN [g EXCEPT !.text = join(Append(g.text, SliceDropLast(line, 8))),
                   !.state = "done"]
    ELSE [g EXCEPT !.text = Append(g.text, SliceDropLast(line, 1))]

\* state == 'text'; text is the list of fragments.
in_text(g, line) ==
    IF endswith(line, TEXT_CLOSE_NL)
    THEN [g EXCEPT !.text = join(Append(g.text, SliceDropLast(line, 8))),
                   !.state = "done"]
    ELSE [g EXCEPT !.text = Append(g.text, line)]

\* The chain with a page begun anew on every line that holds <page>.
transition_resync(g, line, p, np) ==
    IF Contains(line, PAGE_OPEN)
    THEN [g EXCEPT !.state = "page", !.start = page_start(p, np)]
    ELSE IF g.state = "page" THEN in_page(g, line)
    ELSE IF g.state = "title" THEN in_title(g, line)
    ELSE IF g.state = "id" THEN in_id(g, line)
    ELSE IF g.state = "text" THEN in_text(g, line)
    ELSE g

\* The chain as a sequence of independent `if`s: a line that moved the
\* state on is looked at again in the new state.
transition_fallthrough(g, line, p, np) ==
    LET g1 == IF g.state = "None" THEN in_None(g, line, p, np) ELSE g
        g2 == IF g1.state = "page" THEN in_page(g1, line) ELSE g1
        g3 == IF g2.state = "title" THEN in_title(g2, line) ELSE g2
        g4 == IF g3.state = "id" THEN in_id(g3, line) ELSE g3
    IN  IF g4.state = "text" /\ g4.raised = "None"
        THEN in_text(g4, line)
        ELSE g4

\* The if/elif chain on the decoded line.
transition(g, line, p, np) ==
    IF g.state = "None" THEN in_None(g, line, p, np)
    ELSE IF g.state = "page" THEN in_page(g, line)
    ELSE IF g.state = "title" THEN in_title(g, line)
    ELSE IF g.state = "id" THEN in_id(g, line)
    ELSE IF g.state = "text" THEN in_text(g, line)
    ELSE g

\* The state left at 'done' when the page is rejected.
after_done_unless_rejected(g) ==
    IF bad_page(g.title, g.text) THEN "done" ELSE "None"

\* `state = None`, the first statement of the `done` block.
after_done(g) == "None"

\* `if state == 'done'`: whether the iteration yields the page.
yields(g) == g.state = "done" /\ ~bad_page(g.title, g.text)

\* The body of the loop for `line`: the cursors, the decoding, the chain,
\* and the `done` block (state = None; continue or yield).
Iteration(line) ==
    /\ pos' = next_pos
    /\ next_pos' = next_pos + line_len(line)
    /\ stream' = Append(stream, line)
    /\ UNCHANGED <<page_length_limit, result, generator>>
    /\ IF ~Decodable(line)
       THEN /\ pc' = "raised"
            /\ exc' = "UnicodeDecodeError"
            /\ UNCHANGED <<state, title, ID, text, start, out, yield_at>>
       ELSE LET g == transition(Locals, line, pos', next_pos')
            IN  /\ title' = g.title
                /\ ID' = g.ID
                /\ text' = g.text
                /\ start' = g.start
                /\ state' = IF g.state = "done" THEN after_done(g)
                                               ELSE g.state
                /\ IF g.raised # "None"
                   THEN /\ pc' = "raised"
                        /\ exc' = g.raised
                        /\ UNCHANGED <<out, yield_at>>
                   ELSE IF yields(g)
                   THEN /\ pc' = "yielded"
                        /\ out' = Append(out, Page(int(g.ID), g.title,
                                                   g.text, g.start))
                        /\ yield_at' = Append(yield_at, Len(stream'))
                        /\ exc' = exc
                   ELSE /\ pc' = "running"
                        /\ UNCHANGED <<out, yield_at, exc>>

\* The page in progress flushed as a record when file_obj is exhausted.
at_end_of_stream_flush(g) ==
    IF g.state \in {"page", "title", "id", "text"}
    THEN <<Page(g.ID, g.title, g.text, g.start)>>
    ELSE <<>>

\* What the generator yields when file_obj is exhausted: the loop ends and
\* the function returns, so nothing.
at_end_of_stream(g) == <<>>

---------------------------------------------------------------------------
(* plain_page_generator: one iteration of `for line in file_obj`.          *)

\* The unpacking with fields beyond the third ignored.
unpacks_first_three(fields) == Len(fields) >= 3

\* `ID, title, text = line.split('\t')` unpacks exactly three fields and
\* raises ValueError on any other number.
unpacks(fields) == Len(fields) = 3

\* `yield Page(int(ID), title, text, pos)`: the text of the record is the
\* third field as split left it.
plain_text(fields) == fields[3]

\* The record yielded only when the rejection filter lets it through.
plain_yields_filtered(ti, tx) == ~bad_page(ti, tx)

\* Whether the iteration yields the record made of title and text: always.
plain_yields(ti, tx) == TRUE

PlainIteration(line) ==
    /\ pos' = next_pos
    /\ next_pos' = next_pos + line_len(line)
    /\ stream' = Append(stream, line)
    /\ UNCHANGED <<state, start, page_length_limit, result, generator>>
    /\ IF ~Decodable(line)
       THEN /\ pc' = "raised"
            /\ exc' = "UnicodeDecodeError"
            /\ UNCHANGED <<title, ID, text, out, yield_at>>
       ELSE LET fields == split(line, TAB)
            IN  IF ~unpacks(fields)
                THEN /\ pc' = "raised"
                     /\ exc' = "ValueError"
                     /\ UNCHANGED <<title, ID, text, out, yield_at>>
                ELSE /\ ID' = fields[1]
                     /\ title' = fields[2]
                     /\ text' = plain_text(fields)
                     /\ IF ~IntParses(fields[1])
                        THEN /\ pc' = "raised"
                             /\ exc' = "ValueError"
                             /\ UNCHANGED <<out, yield_at>>
                        ELSE IF plain_yields(title', text')
                        THEN /\ pc' = "yielded"
                             /\ exc' = exc
                             /\ out' = Append(out, Page(int(ID'), title',
                                                        text', pos'))
                             /\ yield_at' = Append(yield_at, Len(stream'))
                        ELSE /\ pc' = "running"
                             /\ UNCHANGED <<out, yield_at, exc>>

---------------------------------------------------------------------------
(* The lines the streams of the model are made of.                         *)

\* "<page>\n"
L_page == <<"<","p","a","g","e",">",NL>>

\* " <page>\n": the marker after one other byte
L_page_indented == <<" ","<","p","a","g","e",">",NL>>

L_title ==
    <<"<","t","i","t","l","e",">","T","<","/","t","i","t","l","e",">",
      NL>>

L_id == <<"<","i","d",">","7","<","/","i","d",">",NL>>

\* a text field opened and closed on one line
L_text_inline ==
    <<"<","t","e","x","t",">","a","b","<","/","t","e","x","t",">",NL>>

\* a text field opened (with an attribute) and not closed; 3 bytes of text
L_text_open == <<"<","t","e","x","t"," ","x",">","U+00E9",NL>>

\* a line that only closes a text field
L_text_close == <<"b","<","/","t","e","x","t",">",NL>>

\* a line that is not valid UTF-8
L_undecodable == <<"0xFF",NL>>

\* Lines ending with a newline: any of them may come at any place.
XmlLines == {L_page, L_page_indented, L_title, L_id, L_text_inline,
             L_text_open, L_text_close, L_undecodable}

\* A last line of a file that does not end with a newline.
XmlLastLines == {SliceDropLast(L_text_inline, 1)}

\* file_obj has delivered its last line: the stream is cut off (MaxLines),
\* or the last line read had no newline.
AtLastLine ==
    \/ Len(stream) >= MaxLines
    \/ stream # <<>> /\ ~endswith(stream[Len(stream)], <<NL>>)

Limits == 0..MaxLimit

---------------------------------------------------------------------------
(* The generator protocol: next() resumes the generator, which runs        *)
(* iterations until one yields, the stream ends or an exception leaves it. *)

InitLocals ==
    /\ state = "None"
    /\ title = None
    /\ ID = None
    /\ text = None
    /\ start = NoneInt
    /\ pos = 0
    /\ next_pos = 0
    /\ stream = <<>>
    /\ out = <<>>
    /\ yield_at = <<>>
    /\ pc = "created"
    /\ exc = "None"
    /\ result = FALSE

\* page_generator(file_obj) on a stream that is read as it comes.
Init ==
    /\ InitLocals
    /\ generator = "page_generator"
    /\ rest = <<>>
    /\ page_length_limit \in Limits

\* The consumer asks for the next record.
CallNext ==
    /\ pc \in {"created", "yielded"}
    /\ pc' = "running"
    /\ UNCHANGED <<state, title, ID, text, start, pos, next_pos, stream,
                   rest, out, yield_at, exc, page_length_limit, result,
                   generator>>

\* file_obj delivers one more line.
ReadLine ==
    /\ generator = "page_generator"
    /\ pc = "running"
    /\ ~AtLastLine
    /\ \E line \in XmlLines \cup XmlLastLines : Iteration(line)
    /\ rest' = rest

\* file_obj is exhausted: the loop ends and the generator returns.
EndOfStream ==
    /\ pc = "running"
    /\ rest = <<>>
    /\ pc' = "returned"
    /\ out' = out \o at_end_of_stream(Locals)
    /\ UNCHANGED <<state, title, ID, text, start, pos, next_pos, stream,
                   rest, yield_at, exc, page_length_limit, result,
                   generator>>

Next == CallNext \/ ReadLine \/ EndOfStream

Spec == Init /\ [][Next]_vars

---------------------------------------------------------------------------
(* plain_page_generator(file_obj) on a stream that is read as it comes.    *)

\* ID<TAB>TITLE<TAB>TEXT<newline>
P_sample == <<"4","2",TAB,"S",TAB,"H","i",NL>>

\* a record bad_page rejects: a User: title and an empty text
P_bad_page == <<"7",TAB,"U","s","e","r",":","a",TAB,NL>>

\* a title of two bytes
P_two_bytes == <<"3",TAB,"U+00E9",TAB,"b",NL>>

\* two fields
P_two_fields == <<"7",TAB,"S",NL>>

\* four fields
P_four_fields == <<"1",TAB,"S",TAB,"a",TAB,"b",NL>>

\* three fields, the first not a number
P_no_number == <<"x",TAB,"S",TAB,"a",NL>>

PlainLines == {P_sample, P_bad_page, P_two_bytes, P_two_fields,
               P_four_fields, P_no_number, L_undecodable}

PlainLastLines == {SliceDropLast(P_sample, 1)}

InitPlain ==
    /\ InitLocals
    /\ generator = "plain_page_generator"
    /\ rest = <<>>
    /\ page_length_limit \in Limits

PlainReadLine ==
    /\ generator = "plain_page_generator"
    /\ pc = "running"
    /\ ~AtLastLine
    /\ \E line \in PlainLines \cup PlainLastLines : PlainIteration(line)
    /\ rest' = rest

NextPlain == CallNext \/ PlainReadLine \/ EndOfStream

SpecPlain == InitPlain /\ [][NextPlain]_vars

\* Either generator called on a stream that is read as it comes.
InitBoth ==
    /\ InitLocals
    /\ generator \in {"page_generator", "plain_page_generator"}
    /\ rest = <<>>
    /\ page_length_limit \in Limits

NextBoth == CallNext \/ ReadLine \/ PlainReadLine \/ EndOfStream

SpecBoth == InitBoth /\ [][NextBoth]_vars

---------------------------------------------------------------------------
(* page_generator(file_obj) on a given stream: a page whose text field     *)
(* spans several lines, then the page with the same fragments on one line. *)

\* Most lines strictly between the line that opens a text field and the
\* line that closes it.
MaxMiddle == 2

F_empty == <<>>

F_a == <<"a">>

F_wide == <<"U+00E9",">">>

Fragments == {F_empty, F_a, F_wide}

\* '<text>'
TEXT_TAG == TEXT_OPEN \o <<">">>

\* The text field with first fragment f, middle fragments ms and last
\* fragment l, one fragment per line.
SpreadText(f, ms, l) ==
    <<TEXT_TAG \o f \o <<NL>>>>
        \o [i \in 1..Len(ms) |-> ms[i] \o <<NL>>]
        \o <<l \o TEXT_CLOSE_NL>>

\* The same fragments on a single line.
InlineText(f, ms, l) == <<TEXT_TAG \o f \o join(ms) \o l \o TEXT_CLOSE_NL>>

PageHeader == <<L_page, L_title, L_id>>

MiddleFragments == UNION { [1..n -> Fragments] : n \in 1..MaxMiddle }

InitLayout ==
    /\ InitLocals
    /\ generator = "page_generator"
    /\ page_length_limit = 0
    /\ \E f \in Fragments, ms \in MiddleFragments,
          l \in Fragments \ {F_empty} :
           rest = PageHeader \o SpreadText(f, ms, l)
                      \o PageHeader \o InlineText(f, ms, l)

\* The generator reading one line ahead of the page it yields.
ReadGivenAhead ==
    /\ generator = "page_generator"
    /\ pc = "running"
    /\ rest # <<>>
    /\ Iteration(Head(rest))
    /\ rest' = IF pc' = "yielded" /\ Tail(rest) # <<>>
               THEN Tail(Tail(rest))
               ELSE Tail(rest)

\* file_obj delivers the next line of the given stream.
ReadGiven ==
    /\ generator = "page_generator"
    /\ pc = "running"
    /\ rest # <<>>
    /\ Iteration(Head(rest))
    /\ rest' = Tail(rest)

NextLayout == CallNext \/ ReadGiven \/ EndOfStream

SpecLayout == InitLayout /\ [][NextLayout]_vars

---------------------------------------------------------------------------
(* page_generator(file_obj) on a given stream: the four lines of a page,   *)
(* with lines that hold <page> again put between them.                     *)

\* "<page><title>U</title>\n": <page> and a title on one line
L_page_title ==
    <<"<","p","a","g","e",">",
      "<","t","i","t","l","e",">","U","<","/","t","i","t","l","e",">",NL>>

\* A whole page on one line:
\* "<page><title>W</title><id>9</id><text>x</text>\n"
L_whole_page ==
    <<"<","p","a","g","e",">",
      "<","t","i","t","l","e",">","W","<","/","t","i","t","l","e",">",
      "<","i","d",">","9","<","/","i","d",">",
      "<","t","e","x","t",">","x","<","/","t","e","x","t",">",NL>>

\* What may stand between two lines of the page: nothing, or one line that
\* holds <page>.
Insertions == {<<>>, <<L_page>>, <<L_page_title>>, <<L_whole_page>>}

\* The text field of the page: on one line, or opened and closed on two
\* lines with an insertion between them.
TextForms ==
    {<<L_text_inline>>}
        \cup { <<L_text_open>> \o x \o <<L_text_close>> : x \in Insertions }

InitMixed ==
    /\ InitLocals
    /\ generator = "page_generator"
    /\ page_length_limit \in Limits
    /\ \E x0 \in Insertions, x1 \in Insertions, x2 \in Insertions,
          x3 \in Insertions, tf \in TextForms :
           rest = x0 \o <<L_page>> \o x1 \o <<L_title>> \o x2 \o <<L_id>>
                      \o x3 \o tf

NextMixed == CallNext \/ ReadGiven \/ EndOfStream

SpecMixed == InitMixed /\ [][NextMixed]_vars

---------------------------------------------------------------------------

(* page_generator(file_obj) on a given stream of two pages.                *)

L_title_second ==
    <<"<","t","i","t","l","e",">","S","<","/","t","i","t","l","e",">",
      NL>>

L_id_second == <<"<","i","d",">","8","<","/","i","d",">",NL>>

\* Texts around the length limit: 'a' * n.
PairTexts == { [i \in 1..n |-> "a"] : n \in 0..(MaxLimit + 1) }

\* The text field of a page of the pair: a text on one line, or the field
\* opened and closed on two lines.
PairTextForms ==
    { <<TEXT_TAG \o t \o TEXT_CLOSE_NL>> : t \in PairTexts }
        \cup {<<L_text_open, L_text_close>>}

PageOpenLines == {L_page, L_page_indented}

InitPair ==
    /\ InitLocals
    /\ generator = "page_generator"
    /\ page_length_limit \in Limits
    /\ \E p1 \in PageOpenLines, p2 \in PageOpenLines,
          t1 \in PairTextForms, t2 \in PairTextForms :
           rest = <<p1, L_title, L_id>> \o t1
                      \o <<p2, L_title_second, L_id_second>> \o t2

NextPair == CallNext \/ ReadGiven \/ EndOfStream

SpecPair == InitPair /\ [][NextPair]_vars

---------------------------------------------------------------------------

(* bad_page(title, text) called on given arguments.                        *)

T_Paris == <<"P","a","r","i","s">>

T_User_Alice == <<"U","s","e","r",":","A","l","i","c","e">>

T_user_lower == <<"u","s","e","r",":","x">>

T_short == <<"U","s","e">>

T_empty == <<>>

T_disambiguation ==
    <<"X"," ","(","d","i","s","a","m","b","i","g","u","a","t","i","o",
      "n",")">>

T_Disambiguation_only ==
    <<"(","D","i","s","a","m","b","i","g","u","a","t","i","o","n",")">>

T_number == <<"2","8","6","4","4","4","4","8">>

T_prefix_inside == <<"a","H","e","l","p",":">>

T_suffix_inside ==
    <<"(","d","i","s","a","m","b","i","g","u","a","t","i","o","n",")",
      "s">>

FilterTitles == {T_Paris, T_User_Alice, T_user_lower, T_short,
                 T_empty, T_disambiguation, T_Disambiguation_only, T_number,
                 T_prefix_inside, T_suffix_inside}

H_none == <<>>

H_redirect == <<"#","R","E","D","I","R","E","C","T">>

H_redirect_lower == <<"#","r","e","d","i","r","e","c","t">>

H_softredirect ==
    <<"{","{","S","o","f","t","R","e","d","i","r","e","c","t">>

H_redirect_inside == <<"x","#","R","E","D","I","R","E","C","T">>

H_disamb == <<"{","{","d","i","s","a","m","b">>

H_dab == <<"{","{","D","a","b">>

H_stub == <<"s","t","u","b","}","}">>

H_half_marker == <<"{","{","D","a">>

\* What a filter text starts (or ends) with.
Markers == {H_none, H_redirect, H_redirect_lower, H_softredirect,
            H_redirect_inside, H_disamb, H_dab, H_stub, H_half_marker}

\* The disambiguation markers among them.
TailMarkers == {H_disamb, H_dab, H_stub}

\* 'a' * n
Padding(n) == [i \in 1..n |-> "a"]

\* Short texts: a marker, then padding, then a marker.
ShortTexts ==
    { h \o Padding(n) \o t :
        h \in Markers, n \in 0..(MaxLimit + 1), t \in {H_none, H_dab} }

\* Texts whose head is at the edge of the window of the last TailWindow
\* characters: the whole head is inside it up to TailWindow characters,
\* and 1..MaxPad characters longer the head begins outside it.
LongTexts ==
    UNION { { h \o Padding(TailWindow - Len(h) + d) : d \in (0 - 1)..MaxPad } :
            h \in TailMarkers \cup {H_none} }

\* The scenarios of the specification: 500 and 1000 characters, limit 50.
ScenarioLimit == 50

ScenarioTexts == {Padding(500), Padding(1000)}

InitFilter ==
    /\ generator = "bad_page"
    /\ state = "None"
    /\ ID = None
    /\ start = NoneInt
    /\ pos = 0
    /\ next_pos = 0
    /\ stream = <<>>
    /\ rest = <<>>
    /\ out = <<>>
    /\ yield_at = <<>>
    /\ exc = "None"
    /\ result = FALSE
    /\ pc = "call"
    /\ \/ /\ title \in FilterTitles
          /\ text \in ShortTexts
          /\ page_length_limit \in Limits
       \/ /\ title \in {T_Paris, T_User_Alice}
          /\ text \in LongTexts \cup ScenarioTexts
          /\ page_length_limit \in {0, ScenarioLimit}

\* result = bad_page(title, text)
CallBadPage ==
    /\ pc = "call"
    /\ result' = bad_page(title, text)
    /\ pc' = "return"
    /\ UNCHANGED <<state, title, ID, text, start, pos, next_pos, stream,
                   rest, out, yield_at, exc, page_length_limit, generator>>

NextFilter == CallBadPage

SpecFilter == InitFilter /\ [][NextFilter]_vars

---------------------------------------------------------------------------
(* What the properties below are stated with.                              *)

Last(s) == s[Len(s)]

IsPrefix(s, t) == Len(s) <= Len(t) /\ SubSeq(t, 1, Len(s)) = s

\* The byte offset in the stream at which line i begins.
Offset(i) == len_bytes(join(SubSeq(stream, 1, i - 1)))

\* The bytes of the stream read so far from byte offset off on (empty when
\* off is past the end or inside a character).
BytesFrom(off) ==
    LET all == join(stream)
        ks  == { k \in 0..Len(all) : len_bytes(SubSeq(all, 1, k)) = off }
    IN  IF ks = {} THEN <<>> ELSE SubSeq(all, SetMin(ks) + 1, Len(all))

\* The step read a line of the stream.
ReadsLine == stream' # stream

\* Lines a..a+3 of the stream are a page block: a line with <page>, a
\* title line, an id line and a line with a text field opened and closed.
PageBlockAt(a) ==
    /\ \A i \in a..(a + 3) : Decodable(stream[i])
    /\ Contains(stream[a], PAGE_OPEN)
    /\ search_title(stream[a + 1]).matched
    /\ search_id(stream[a + 2]).matched
    /\ endswith(stream[a + 3], TEXT_CLOSE_NL)
    /\ search_text_inline(stream[a + 3]).matched

\* The record of the page block at a.
PageOfBlock(a) ==
    Page(int(search_id(stream[a + 2]).group1),
         search_title(stream[a + 1]).group1,
         search_text_inline(stream[a + 3]).group1,
         Offset(a))

---------------------------------------------------------------------------
(* Properties of page_generator, under Spec.                               *)

\* C1: every well-formed page block of the stream that bad_page does not
\* reject is yielded as a record with that page's own id, title, rawText
\* and startOffset, whatever precedes it in the stream.
C1_WellFormedPageYielded ==
    \A a \in 1..(Len(stream) - 3) :
        (PageBlockAt(a) /\ ~bad_page(PageOfBlock(a).title,
                                     PageOfBlock(a).text))
            => \E k \in DOMAIN out : out[k] = PageOfBlock(a)

\* C2: no partial yields.  The end of the stream yields nothing, so a run
\* on the stream cut after any line yields the records yielded up to that
\* line and no other; what is yielded only grows; and a record is yielded
\* only by the line that closes its text field, with title, id and rawText
\* captured.
C2_NoPartialYields ==
    [][ /\ pc' = "returned" => out' = out
        /\ IsPrefix(out, out')
        /\ out' # out =>
              /\ Len(out') = Len(out) + 1
              /\ ReadsLine
              /\ endswith(Last(stream'), TEXT_CLOSE_NL)
              /\ Last(out').title # None
              /\ Last(out').text # None
              /\ Last(out').ID \in Nat
              /\ Last(out').start \in Nat ]_vars

\* C2 witness: the stream ended inside a page, after a page was yielded.
C2_Witness ==
    /\ pc = "returned"
    /\ state \in {"page", "title", "id", "text"}
    /\ out # <<>>

\* C3 as stated: the bytes of the stream at every record's startOffset
\* begin with <page>.
C3_BytesAtStartBeginWithPageOpen ==
    \A k \in DOMAIN out : IsPrefix(PAGE_OPEN, BytesFrom(out[k].start))

\* C3 as amended: every record's startOffset is the offset at which a line
\* of the record's page block begins that contains <page>, and the bytes of
\* the stream at startOffset are that line; they begin with <page> itself
\* exactly when the line does.
C3_StartIsLineOfPageOpen ==
    \A k \in DOMAIN out :
        \E i \in 1..yield_at[k] :
            /\ i > (IF k = 1 THEN 0 ELSE yield_at[k - 1])
            /\ Contains(stream[i], PAGE_OPEN)
            /\ out[k].start = Offset(i)
            /\ IsPrefix(stream[i], BytesFrom(out[k].start))
            /\ IsPrefix(PAGE_OPEN, BytesFrom(out[k].start))
                   <=> OccursAt(stream[i], PAGE_OPEN, 1)

\* C3 witness: a record of a page opened by a line on which another byte
\* precedes <page>.
C3_Witness ==
    \E k \in DOMAIN out :
        \E i \in 1..yield_at[k] :
            /\ out[k].start = Offset(i)
            /\ Contains(stream[i], PAGE_OPEN)
            /\ ~OccursAt(stream[i], PAGE_OPEN, 1)

\* C4: in state 'id' a line without a text-opening marker leaves the state
\* 'id', raises nothing and yields nothing, whatever else it contains.
C4_NoTextOpenStaysInId ==
    [][ (/\ state = "id"
         /\ ReadsLine
         /\ Decodable(Last(stream'))
         /\ ~search_text_open(Last(stream')).matched)
            => (state' = "id" /\ pc' # "raised" /\ out' = out) ]_vars

---------------------------------------------------------------------------
(* The text field spread over lines, under SpecLayout: page 1 of the       *)
(* stream spreads its text field from line 4 on, page 2 has the same       *)
(* fragments on one line.                                                  *)

\* The number of lines of the text field of page 1.
TextLines == yield_at[1] - Len(PageHeader)

\* The fragment after the opening marker, every middle line and the last
\* line up to </text>, concatenated as they stand in the stream.
ConcatenatedText ==
    SliceFrom(stream[4], Len(TEXT_TAG))
        \o join(SubSeq(stream, 5, yield_at[1] - 1))
        \o SliceDropLast(stream[yield_at[1]], Len(TEXT_CLOSE_NL))

RECURSIVE WithoutNewlines(_)
WithoutNewlines(s) ==
    IF s = <<>> THEN <<>>
    ELSE IF Head(s) = NL THEN WithoutNewlines(Tail(s))
    ELSE <<Head(s)>> \o WithoutNewlines(Tail(s))

\* C5 as stated: the rawText of the text field spread over N >= 3 lines is
\* the rawText of the same fragments given on one line.
C5_SpreadTextEqualsInlineText ==
    Len(out) = 2 => out[1].text = out[2].text

\* C5 as amended: the rawText of a text field spread over N >= 3 lines is
\* the fragment after the opening marker, every middle line and the last
\* line up to </text>, concatenated with the line terminators they carry;
\* it is the rawText of the same fragments given on one line only once its
\* N - 1 line terminators are taken out.
C5_SpreadTextKeepsLineTerminators ==
    /\ Len(out) >= 1 =>
          /\ TextLines >= 3
          /\ out[1].text = ConcatenatedText
          /\ Len(out[1].text) = Len(WithoutNewlines(out[1].text))
                                    + TextLines - 1
    /\ Len(out) = 2 =>
          /\ out[2].text = WithoutNewlines(out[1].text)
          /\ out[2].text # out[1].text

\* C5 witness: both pages were yielded, the first from a text field of
\* four lines with a non-empty middle line.
C5_Witness ==
    /\ Len(out) = 2
    /\ TextLines = 4
    /\ stream[5] # <<NL>>

---------------------------------------------------------------------------
(* Properties of bad_page, under SpecFilter.                               *)

\* s starts with term, letter case ignored.
StartsWithIgnoringCase(s, term) ==
    /\ Len(s) >= Len(term)
    /\ \A i \in 1..Len(term) : UpperChar(s[i]) = UpperChar(term[i])

\* s ends with term, letter case ignored.
EndsWithIgnoringCase(s, term) ==
    /\ Len(s) >= Len(term)
    /\ \A i \in 1..Len(term) :
           UpperChar(s[Len(s) - Len(term) + i]) = UpperChar(term[i])

\* term occurs in s, letter case ignored, from position i on.
OccursIgnoringCaseAt(s, term, i) ==
    /\ i + Len(term) - 1 <= Len(s)
    /\ \A k \in 1..Len(term) : UpperChar(s[i + k - 1]) = UpperChar(term[k])

Range(f) == { f[i] : i \in DOMAIN f }

RuleTitlePrefix ==
    \E term \in Range(title_start_with_terms) :
        StartsWithIgnoringCase(title, term)

RuleTitleSuffix ==
    \E term \in Range(title_end_with_terms) :
        EndsWithIgnoringCase(title, term)

RuleLength == Len(text) <= page_length_limit

RuleTextPrefix ==
    \E term \in Range(text_start_with_terms) :
        StartsWithIgnoringCase(text, term)

\* A marker lies within the last 8000 characters of text.
RuleTextTail ==
    \E term \in Range(text_last_terms) :
        \E i \in Max(1, Len(text) - 8000 + 1)..Len(text) :
            OccursIgnoringCaseAt(text, term, i)

\* C6: bad_page returns true iff one of the five rules holds, whatever
\* the order of the checks; 'User:Alice' is rejected, and 'Paris' with
\* 1000 marker-free characters and limit 50 is accepted.
C6_BadPageIffSomeRule ==
    pc = "return" =>
        /\ result <=> (RuleTextTail \/ RuleTextPrefix \/ RuleLength
                           \/ RuleTitleSuffix \/ RuleTitlePrefix)
        /\ title = T_User_Alice => result
        /\ (/\ title = T_Paris
            /\ text = Padding(1000)
            /\ page_length_limit = 50) => ~result

\* C6 witness: a page accepted although its text holds a marker, because
\* the marker begins before the last 8000 characters.
C6_Witness ==
    /\ pc = "return"
    /\ ~result
    /\ Len(text) > TailWindow
    /\ \E term \in Range(text_last_terms) :
           OccursIgnoringCaseAt(text, term, 1)

\* C7: when no title rule, no text-prefix rule and no text-tail rule
\* matches, a text of exactly page_length_limit characters is rejected and
\* one of page_length_limit + 1 characters is not.
C7_LengthBoundary ==
    (/\ pc = "return"
     /\ ~RuleTitlePrefix /\ ~RuleTitleSuffix
     /\ ~RuleTextPrefix /\ ~RuleTextTail)
        => /\ Len(text) = page_length_limit => result
           /\ Len(text) = page_length_limit + 1 => ~result

\* C7 witness: a text of exactly the limit, not empty, rejected by the
\* length rule alone.
C7_Witness ==
    /\ pc = "return"
    /\ result
    /\ page_length_limit >= 1
    /\ Len(text) = page_length_limit
    /\ ~RuleTitlePrefix /\ ~RuleTitleSuffix
    /\ ~RuleTextPrefix /\ ~RuleTextTail

---------------------------------------------------------------------------
(* Properties of plain_page_generator, under SpecPlain.                    *)

\* TEXT of a line ID<TAB>TITLE<TAB>TEXT<newline>: the third field without
\* the newline that ends the line.
WithoutLineEnd(s) == IF endswith(s, <<NL>>) THEN SliceDropLast(s, 1) ELSE s

\* line is ID<TAB>TITLE<TAB>TEXT with a number for ID.
WellFormedPlain(line) ==
    /\ Decodable(line)
    /\ Len(split(line, TAB)) = 3
    /\ IntParses(split(line, TAB)[1])

\* C8: the record yielded for a line ID<TAB>TITLE<TAB>TEXT<newline> has
\* the integer ID, TITLE, TEXT without the trailing newline, and the byte
\* offset of the start of the line.
C8_TabRecord ==
    \A k \in DOMAIN out :
        LET fields == split(stream[yield_at[k]], TAB)
        IN  /\ out[k].ID = int(fields[1])
            /\ out[k].title = fields[2]
            /\ out[k].text = WithoutLineEnd(fields[3])
            /\ out[k].start = Offset(yield_at[k])

\* C9: one record per well-formed line, in the order of the lines, and
\* none held back by the rejection filter.
C9_OneRecordPerLine ==
    /\ Len(out) <= Len(stream)
    /\ \A i \in DOMAIN stream :
           WellFormedPlain(stream[i]) =>
               /\ i \in DOMAIN out
               /\ yield_at[i] = i
               /\ out[i].ID = int(split(stream[i], TAB)[1])
               /\ out[i].title = split(stream[i], TAB)[2]
               /\ out[i].start = Offset(i)
    /\ \A k \in DOMAIN out : WellFormedPlain(stream[k])

\* C9 witness: a record yielded, after another one, that bad_page rejects.
C9_Witness ==
    /\ Len(out) >= 2
    /\ bad_page(out[Len(out)].title, out[Len(out)].text)

\* C10: a line that does not split into exactly three fields ends the
\* generator with an error: it yields nothing for that line, nothing is
\* read or yielded afterwards, and the records yielded before stay.
C10_WrongFieldCountIsFatal ==
    [][ /\ pc # "raised"
        /\ (/\ ReadsLine
            /\ Decodable(Last(stream'))
            /\ Len(split(Last(stream'), TAB)) # 3)
               => (pc' = "raised" /\ exc' = "ValueError" /\ out' = out) ]_vars

\* C10 witness: the generator ended on a line of four fields after it had
\* yielded a record.
C10_Witness ==
    /\ pc = "raised"
    /\ exc = "ValueError"
    /\ out # <<>>
    /\ Len(split(Last(stream), TAB)) = 4

---------------------------------------------------------------------------
(* bad_page on short titles, under SpecFilter.                             *)

TitleTerms == Range(title_start_with_terms) \cup Range(title_end_with_terms)

\* C11: bad_page returns a boolean and raises nothing for every title and
\* text, the empty title and the titles shorter than a deny term included.
\* A term longer than the title does not match it and the evaluation goes
\* on: a title shorter than every term is judged by the text rules alone,
\* and a title that a later prefix term matches is rejected although an
\* earlier term is longer than the title.
C11_ShortTitleNeverRaises ==
    /\ pc \in {"call", "return"}
    /\ pc = "return" =>
        /\ exc = "None"
        /\ result \in BOOLEAN
        /\ (\A term \in TitleTerms : Len(title) < Len(term)) =>
               (result <=> (RuleLength \/ RuleTextPrefix \/ RuleTextTail))
        /\ \A i \in DOMAIN title_start_with_terms :
               (/\ StartsWithIgnoringCase(title, title_start_with_terms[i])
                /\ \E j \in 1..(i - 1) :
                       Len(title) < Len(title_start_with_terms[j]))
                   => result

\* C11 witness: the call returned for the empty title, and accepted the
\* page.
C11_Witness ==
    /\ pc = "return"
    /\ title = T_empty
    /\ ~result

---------------------------------------------------------------------------
(* The text field of a page, under Spec.                                   *)

\* The places on the line, after the end of its text-opening marker, where
\* the closing marker </text> begins.
ClosesAfterOpen(line) ==
    LET m == search_text_open(line)
    IN  IF m.matched
        THEN { j \in (m.end + 1)..Len(line) : OccursAt(line, TEXT_CLOSE, j) }
        ELSE {}

\* What is between the text-opening marker and the closing marker.
TextBetween(line) ==
    SubSeq(line, search_text_open(line).end + 1,
           SetMin(ClosesAfterOpen(line)) - 1)

\* C12: in state 'id', a line that holds the text-opening marker and,
\* after it, </text> gives the page its text (what is between the two) and
\* completes the page on that line, the accumulation never entered; so too
\* when the line is the last of the stream and has no newline.
C12_InlineTextCompletesOnSameLine ==
    [][ (/\ state = "id"
         /\ ReadsLine
         /\ Decodable(Last(stream'))
         /\ ClosesAfterOpen(Last(stream')) # {})
            => (/\ state' = "None"
                /\ pc' \in {"running", "yielded"}
                /\ text' = TextBetween(Last(stream'))) ]_vars

---------------------------------------------------------------------------
(* The state machine of page_generator, under SpecMixed.                   *)

\* The number of lines read when the last record was yielded.
LastYieldAt == IF yield_at = <<>> THEN 0 ELSE Last(yield_at)

\* The state before and after a line is one of the transitions of the
\* machine ('done' is left for None within the iteration that reached it).
AllowedTransition(line, from, to) ==
    \/ from = "None" /\ to = "page" /\ Contains(line, PAGE_OPEN)
    \/ from = "page" /\ to = "title" /\ search_title(line).matched
    \/ from = "title" /\ to = "id" /\ search_id(line).matched
    \/ from = "id" /\ to = "text" /\ search_text_open(line).matched
    \/ from = "id" /\ to = "None" /\ search_text_inline(line).matched
    \/ from = "text" /\ to = "None" /\ endswith(line, TEXT_CLOSE_NL)

\* C13: a line makes at most one transition, and only one of None->page
\* (the line holds <page>), page->title (title matched), title->id (id
\* matched), id->done, id->text, text->done, with done->None in the same
\* iteration.  So a record is yielded only from 'id' or 'text', after a
\* line with <page>, a later line with the title, a later line with the
\* id, and a later line that opens the text field, closed on that line or
\* on a later one, which is the line of the yield.
C13_OneTransitionPerLine ==
    [][ ReadsLine =>
          /\ \/ state' = state /\ out' = out
             \/ AllowedTransition(Last(stream'), state, state')
          /\ out' # out =>
              /\ state \in {"id", "text"}
              /\ state' = "None"
              /\ \E a \in (LastYieldAt + 1)..Len(stream') :
                 \E b \in (a + 1)..Len(stream') :
                 \E c \in (b + 1)..Len(stream') :
                 \E d \in (c + 1)..Len(stream') :
                     /\ Contains(stream'[a], PAGE_OPEN)
                     /\ search_title(stream'[b]).matched
                     /\ search_title(stream'[b]).group1 = Last(out').title
                     /\ search_id(stream'[c]).matched
                     /\ int(search_id(stream'[c]).group1) = Last(out').ID
                     /\ search_text_open(stream'[d]).matched
                     /\ endswith(Last(stream'), TEXT_CLOSE_NL) ]_vars

\* C13 witness: a record yielded from four lines that each hold a whole
\* page: each of them moved the state by one transition only.
C13_Witness ==
    /\ Len(out) = 1
    /\ Len(stream) >= 7
    /\ \E a, b, c, d \in DOMAIN stream :
           /\ a < b /\ b < c /\ c < d /\ d = yield_at[1]
           /\ stream[a] = L_whole_page
           /\ stream[b] = L_whole_page
           /\ stream[c] = L_whole_page
           /\ stream[d] = L_whole_page

---------------------------------------------------------------------------
(* Two pages in a row, under SpecPair.                                     *)

\* The line on which the text field of the first page closes.
FirstClose ==
    SetMin({ i \in DOMAIN stream : endswith(stream[i], TEXT_CLOSE_NL) })

\* The text of the second page, once the whole stream is read: of its last
\* line, or of its last two lines.
SecondText ==
    IF search_text_inline(Last(stream)).matched
    THEN search_text_inline(Last(stream)).group1
    ELSE SliceFrom(stream[Len(stream) - 1],
                   search_text_open(stream[Len(stream) - 1]).end)
             \o SliceDropLast(Last(stream), 8)

\* The record of the second page.
SecondRecord ==
    Page(8, <<"S">>, SecondText, Offset(FirstClose + 1))

\* C14: the line that completes a page (it closes the text field) yields
\* exactly one record when bad_page is false for the page and none when it
\* is true, and leaves the state None either way; so, the whole stream
\* read, the second page is yielded or not by its own title and text only,
\* with its own fields, whether the first page was yielded or rejected.
C14_DoneYieldsOrDropsAndResets ==
    /\ [][ (/\ ReadsLine
            /\ state \in {"id", "text"}
            /\ endswith(Last(stream'), TEXT_CLOSE_NL))
               => /\ state' = "None"
                  /\ IF bad_page(title', text')
                     THEN out' = out /\ pc' = "running"
                     ELSE /\ out' = Append(out, Page(int(ID'), title',
                                                     text', start'))
                          /\ pc' = "yielded" ]_vars
    /\ [](pc = "returned" =>
            LET later == { k \in DOMAIN out : yield_at[k] > FirstClose }
            IN  IF bad_page(<<"S">>, SecondText)
                THEN later = {}
                ELSE later = {Len(out)} /\ Last(out) = SecondRecord)

\* C14 witness: the first page was rejected and the second one yielded.
C14_Witness ==
    /\ pc = "returned"
    /\ Len(out) = 1
    /\ out[1].ID = 8
    /\ out[1].start > 0

---------------------------------------------------------------------------
(* The byte-offset cursors of both generators, under SpecBoth.             *)

\* C15: once a line is consumed, by page_generator in any state or by
\* plain_page_generator, pos is the sum of the byte lengths of the lines
\* consumed before it and next_pos is pos plus the byte length of that
\* line; the line that fails to decode has moved the cursors as well.
C15_CursorsTrackBytes ==
    /\ generator \in {"page_generator", "plain_page_generator"}
    /\ stream = <<>> => pos = 0 /\ next_pos = 0
    /\ stream # <<>> =>
           /\ pos = Offset(Len(stream))
           /\ next_pos = pos + len_bytes(Last(stream))

\* C15 witness: a line that does not decode was consumed after a line with
\* a character of two bytes.
C15_Witness ==
    /\ pc = "raised"
    /\ exc = "UnicodeDecodeError"
    /\ Len(stream) >= 2
    /\ next_pos = pos + 2
    /\ \E i \in DOMAIN stream : Len(stream[i]) < len_bytes(stream[i])

---------------------------------------------------------------------------
(* The lines consumed at a yield, under SpecPair.                          *)

\* C16: no look-ahead.  When a record is yielded, the lines consumed are
\* the lines of the stream up to the line that closes the record's text
\* field, that line included; no line is consumed until the consumer asks
\* for the next record; and every line is consumed once, in its turn.
C16_NoLookAhead ==
    [][ /\ stream' \o rest' = stream \o rest
        /\ ReadsLine =>
               /\ pc = "running"
               /\ stream' = Append(stream, Head(rest))
        /\ pc' = "yielded" =>
               /\ out' # <<>>
               /\ Last(yield_at') = Len(stream')
               /\ endswith(Last(stream'), TEXT_CLOSE_NL)
               /\ rest' = SubSeq(stream \o rest, Len(stream') + 1,
                                 Len(stream \o rest)) ]_vars

\* C16 witness: the first page was yielded when its four lines were
\* consumed, the lines of the second page not yet.
C16_Witness ==
    /\ pc = "yielded"
    /\ Len(out) = 1
    /\ Len(stream) = 4
    /\ Len(rest) >= 4

---------------------------------------------------------------------------
(* The end of the sequence, under Spec.                                    *)

\* C17: on a finite stream of decodable lines page_generator goes on to
\* the end of the sequence, in whatever state the stream ends: nothing but
\* the end of the stream stops it, so no exception ends it; each line is
\* consumed once; and on the empty stream it returns with no record.
C17_DecodableStreamReachesEnd ==
    (\A i \in DOMAIN stream : Decodable(stream[i])) =>
        /\ pc \in {"created", "running", "yielded", "returned"}
        /\ exc = "None"
        /\ pos = Offset(Len(stream))
        /\ (pc = "returned" /\ stream = <<>>) => out = <<>>

---------------------------------------------------------------------------
(* A line that does not decode, under Spec.                                *)

\* The line holds a byte that is not valid UTF-8.
HasInvalidByte(line) == \E i \in DOMAIN line : line[i] = "0xFF"

\* C18: a line that fails to decode ends page_generator with the decoding
\* error: that line yields nothing and leaves the page in progress as it
\* was, never surfaced; the records yielded before stay as they are; and
\* after the error nothing is read and nothing is yielded.
C18_DecodeFailureIsFatal ==
    [][ /\ (ReadsLine /\ HasInvalidByte(Last(stream'))) =>
               /\ pc' = "raised"
               /\ exc' = "UnicodeDecodeError"
               /\ out' = out
               /\ <<state, title, ID, text, start>>'
                      = <<state, title, ID, text, start>>
        /\ pc = "raised" => (out' = out /\ stream' = stream)
        /\ IsPrefix(out, out') ]_vars

\* C18 witness: the decoding failed inside the text field of a page, which
\* was not yielded.
C18_Witness ==
    /\ pc = "raised"
    /\ exc = "UnicodeDecodeError"
    /\ state = "text"
    /\ out = <<>>
    /\ HasInvalidByte(Last(stream))

---------------------------------------------------------------------------
(* A line with <page> inside a page, under SpecMixed.                      *)

InProgress == {"page", "title", "id", "text"}

\* The line holds what the state st is waiting for.
Awaited(line, st) ==
    \/ st = "page" /\ search_title(line).matched
    \/ st = "title" /\ search_id(line).matched
    \/ st = "id" /\ (\/ search_text_open(line).matched
                     \/ search_text_inline(line).matched)
    \/ st = "text" /\ endswith(line, TEXT_CLOSE_NL)

\* A line that holds <page> is read while a page is in progress.
PageOpenInsidePage ==
    /\ ReadsLine
    /\ state \in InProgress
    /\ Contains(Last(stream'), PAGE_OPEN)

\* C19 as stated: while a page is in progress a line that holds <page>
\* changes neither the state, nor start, nor a title or an id already
\* captured; start is assigned only on the transition None -> page.
C19_PageOpenInsidePageChangesNothing ==
    [][ /\ PageOpenInsidePage =>
               /\ state' = state
               /\ start' = start
               /\ state \in {"title", "id", "text"} => title' = title
               /\ state \in {"id", "text"} => ID' = ID
        /\ start' # start => (state = "None" /\ state' = "page") ]_vars

\* C19 as amended: while a page is in progress the <page> on a line has no
\* effect: start and a title or an id already captured stay, and the state
\* changes only when the line also holds what the state is waiting for;
\* start is assigned only on the transition None -> page.
C19_PageOpenInsidePageIsIgnored ==
    [][ /\ PageOpenInsidePage =>
               /\ state' # state => Awaited(Last(stream'), state)
               /\ start' = start
               /\ state \in {"title", "id", "text"} => title' = title
               /\ state \in {"id", "text"} => ID' = ID
        /\ start' # start => (state = "None" /\ state' = "page") ]_vars

\* C19 witness: inside a page, a line with <page> and a title moved the
\* state on to 'title' and left start at the first <page>.
C19_Witness ==
    /\ Len(stream) >= 2
    /\ Last(stream) = L_page_title
    /\ Contains(stream[1], PAGE_OPEN)
    /\ state = "title"
    /\ title = <<"U">>
    /\ start = 0

---------------------------------------------------------------------------
(* The order of the records, under SpecPair.                               *)

\* C20: the records come in the order of the stream; their start offsets
\* increase strictly, and the start offset of a record is strictly less
\* than the offset of the line that closed its text field, which is the
\* line it was yielded on.
C20_StartOffsetsIncrease ==
    /\ Len(yield_at) = Len(out)
    /\ \A k \in DOMAIN out :
           /\ endswith(stream[yield_at[k]], TEXT_CLOSE_NL)
           /\ out[k].start >= 0
           /\ out[k].start < Offset(yield_at[k])
           /\ k > 1 =>
                  /\ yield_at[k - 1] < yield_at[k]
                  /\ out[k - 1].start < out[k].start
                  /\ Offset(yield_at[k - 1]) < out[k].start

\* C20 witness: two records yielded, the second one with a text field
\* that closed on a later line than it opened.
C20_Witness ==
    /\ Len(out) = 2
    /\ out[2].ID = 8
    /\ ~search_text_inline(stream[yield_at[2]]).matched

=============================================================================
